---------------------------- MODULE Spec2Model ----------------------------
(***************************************************************************)
(* Model of the spaced-repetition reminder bot in src/bot.py.              *)
(*                                                                         *)
(* The shared store is the SQLite file bot.db (tables items, schedules).   *)
(* A scheduler instance is one OS process running main(): it owns an       *)
(* in-memory job queue, which is lost when the process dies.  Time is in   *)
(* seconds since an arbitrary epoch.                                        *)
(***************************************************************************)
EXTENDS Integers, Sequences, FiniteSets, Bags, TLC

VARIABLES
    clock,      \* now_utc(), in seconds
    items,      \* table items: row id = index
    schedules,  \* table schedules: row id = index
    procs,      \* the scheduler instances deployed against the store
    up,         \* up[p]: instance p is running
    job_queue,  \* job_queue[p]: app.job_queue of instance p, in insertion order
    adding,     \* adding[p]: the frame of an add handler in progress, or NoAdd
    sending,    \* sending[p]: bag of jobs whose remind_job awaits send_message
    handed,     \* handed[id]: completed send_message calls for schedule id
    delivered,  \* messages the notifier accepted
    failed,     \* messages whose send_message raised
    errored,    \* jobs whose remind_job ended in a store error, before the mark
    crashes     \* number of process crashes so far

vars == <<clock, items, schedules, procs, up, job_queue, adding, sending,
          handed, delivered, failed, errored, crashes>>

-----------------------------------------------------------------------------
\* Bounds of the model
MaxItems == 1
MaxCrashes == 1
MaxFails == 1

\* Program constants
REPEAT_DAYS == <<1, 3, 7, 30>>
DAY == 86400
GRACE == 5
TZ_OFFSET_HOURS == 5
LIST_LIMIT == 20
NEXT_LIMIT == 10

\* Inputs
Epochs == {0, 86397}
Chats == {1, 2}
Args == {<<>>, <<"a">>, <<"b", "c">>}

NoAdd == [i |-> 0]
NULL == <<>>

-----------------------------------------------------------------------------
\* Time helpers

\* datetime.isoformat(): date part and time-of-day part, as stored in TEXT columns
isoformat(t) == <<t \div DAY, t % DAY>>

\* datetime.fromisoformat()
fromisoformat(s) == s[1] * DAY + s[2]

\* SQLite's comparison of two ISO texts (ORDER BY due_at): field by field
IsoLess(a, b) == a[1] < b[1] \/ (a[1] = b[1] /\ a[2] < b[2])

\* timedelta(days=d)
timedelta_days(d) == d * DAY

\* fmt_local: local wall time to the minute
fmt_local(t) == (t + TZ_OFFSET_HOURS * 3600) \div 60

RECURSIVE Join(_)
\* " ".join(args)
Join(args) ==
    IF Len(args) = 0 THEN ""
    ELSE IF Len(args) = 1 THEN args[1]
    ELSE args[1] \o " " \o Join(Tail(args))

\* removes element k of a sequence
RemoveAt(s, k) == [i \in 1..(Len(s) - 1) |-> IF i < k THEN s[i] ELSE s[i + 1]]

\* first n elements (SQL LIMIT n)
Limit(s, n) == IF Len(s) <= n THEN s ELSE SubSeq(s, 1, n)

\* ids of the rows of a table, in rowid order
RowIds(table) == [i \in 1..Len(table) |-> i]

-----------------------------------------------------------------------------
\* DB

\* INSERT INTO items
db_add_item(its, chat_id, text, created_at) ==
    Append(its, [chat_id |-> chat_id, text |-> text,
                 created_at |-> isoformat(created_at)])

\* variant of db_add_schedule: due_at stored as local time
db_add_schedule_Local(sch, item_id, chat_id, due_at, days) ==
    Append(sch, [item_id |-> item_id, chat_id |-> chat_id,
                 due_at |-> isoformat(due_at + TZ_OFFSET_HOURS * 3600),
                 days |-> days, sent |-> 0])

\* INSERT INTO schedules ... sent = 0
db_add_schedule(sch, item_id, chat_id, due_at, days) ==
    Append(sch, [item_id |-> item_id, chat_id |-> chat_id,
                 due_at |-> isoformat(due_at), days |-> days, sent |-> 0])

\* variants of db_mark_sent: no UPDATE at all / sent toggled / sent counted up
db_mark_sent_Skipped(sch, schedule_id) == sch

db_mark_sent_Toggle(sch, schedule_id) ==
    [i \in 1..Len(sch) |->
        IF i = schedule_id THEN [sch[i] EXCEPT !.sent = 1 - @] ELSE sch[i]]

db_mark_sent_Count(sch, schedule_id) ==
    [i \in 1..Len(sch) |->
        IF i = schedule_id THEN [sch[i] EXCEPT !.sent = @ + 1] ELSE sch[i]]

\* UPDATE schedules SET sent=1 WHERE id=?
db_mark_sent(sch, schedule_id) ==
    [i \in 1..Len(sch) |->
        IF i = schedule_id THEN [sch[i] EXCEPT !.sent = 1] ELSE sch[i]]

\* variant of db_pending_future: only rows whose due_at is still ahead
db_pending_future_OnlyFuture(sch, its) ==
    LET ids == SelectSeq(RowIds(sch),
                         LAMBDA i : /\ sch[i].sent = 0
                                    /\ sch[i].item_id \in 1..Len(its)
                                    /\ fromisoformat(sch[i].due_at) > clock)
    IN  [k \in 1..Len(ids) |->
            [schedule_id |-> ids[k], chat_id |-> sch[ids[k]].chat_id,
             due_at |-> sch[ids[k]].due_at, days |-> sch[ids[k]].days,
             text |-> its[sch[ids[k]].item_id].text]]

\* variant of db_pending_future: s.item_id selected in place of s.chat_id
db_pending_future_WrongChat(sch, its) ==
    LET ids == SelectSeq(RowIds(sch),
                         LAMBDA i : sch[i].sent = 0 /\ sch[i].item_id \in 1..Len(its))
    IN  [k \in 1..Len(ids) |->
            [schedule_id |-> ids[k], chat_id |-> sch[ids[k]].item_id,
             due_at |-> sch[ids[k]].due_at, days |-> sch[ids[k]].days,
             text |-> its[sch[ids[k]].item_id].text]]

\* SELECT ... FROM schedules s JOIN items i WHERE s.sent = 0
db_pending_future(sch, its) ==
    LET ids == SelectSeq(RowIds(sch),
                         LAMBDA i : sch[i].sent = 0 /\ sch[i].item_id \in 1..Len(its))
    IN  [k \in 1..Len(ids) |->
            [schedule_id |-> ids[k], chat_id |-> sch[ids[k]].chat_id,
             due_at |-> sch[ids[k]].due_at, days |-> sch[ids[k]].days,
             text |-> its[sch[ids[k]].item_id].text]]

RECURSIVE OrderByDue_ById(_, _)
\* variant of OrderByDue: ORDER BY id
OrderByDue_ById(sch, ids) ==
    IF ids = {} THEN <<>>
    ELSE LET first == CHOOSE i \in ids : \A j \in ids : i <= j
         IN  <<first>> \o OrderByDue_ById(sch, ids \ {first})

\* ORDER BY due_at ASC over a set of schedule ids (equal texts in rowid order)
RECURSIVE OrderByDue(_, _)
OrderByDue(sch, ids) ==
    IF ids = {} THEN <<>>
    ELSE LET first == CHOOSE i \in ids : \A j \in ids :
                          \/ IsoLess(sch[i].due_at, sch[j].due_at)
                          \/ (sch[i].due_at = sch[j].due_at /\ i <= j)
         IN  <<first>> \o OrderByDue(sch, ids \ {first})

\* variant of UnsentOfItem: the subquery without AND s.sent = 0
UnsentOfItem_All(sch, item_id) ==
    OrderByDue(sch, {i \in 1..Len(sch) : sch[i].item_id = item_id})

\* ids of the unsent schedules of an item, ORDER BY due_at ASC
UnsentOfItem(sch, item_id) ==
    OrderByDue(sch, {i \in 1..Len(sch) : sch[i].item_id = item_id /\ sch[i].sent = 0})

\* SELECT ... FROM items i WHERE i.chat_id = ? ORDER BY i.id DESC LIMIT ?
db_list_items(sch, its, chat_id, limit) ==
    LET asc == SelectSeq(RowIds(its), LAMBDA i : its[i].chat_id = chat_id)
        desc == [k \in 1..Len(asc) |-> asc[Len(asc) + 1 - k]]
        ids == Limit(desc, limit)
    IN  [k \in 1..Len(ids) |->
            LET nxt == UnsentOfItem(sch, ids[k])
            IN  [item_id |-> ids[k], text |-> its[ids[k]].text,
                 created_at |-> its[ids[k]].created_at,
                 next_due_at |-> IF nxt = <<>> THEN NULL ELSE sch[nxt[1]].due_at,
                 next_days |-> IF nxt = <<>> THEN NULL ELSE sch[nxt[1]].days]]

\* SELECT ... WHERE s.chat_id = ? AND s.sent = 0 ORDER BY s.due_at ASC LIMIT ?
db_next_schedules(sch, its, chat_id, limit) ==
    LET ids == Limit(OrderByDue(sch,
                   {i \in 1..Len(sch) : /\ sch[i].chat_id = chat_id
                                        /\ sch[i].sent = 0
                                        /\ sch[i].item_id \in 1..Len(its)}), limit)
    IN  [k \in 1..Len(ids) |->
            [schedule_id |-> ids[k], due_at |-> sch[ids[k]].due_at,
             days |-> sch[ids[k]].days, text |-> its[sch[ids[k]].item_id].text]]

-----------------------------------------------------------------------------
\* JOBS

\* variant of schedule_one_job: the job named after the chat
schedule_one_job_ByChat(schedule_id, chat_id, due_at_utc, days, text) ==
    [name |-> chat_id, when |-> due_at_utc, chat_id |-> chat_id,
     data |-> [schedule_id |-> schedule_id, text |-> text, days |-> days,
               due_at |-> isoformat(due_at_utc)]]

\* the job run_once() puts in the queue
schedule_one_job(schedule_id, chat_id, due_at_utc, days, text) ==
    [name |-> schedule_id, when |-> due_at_utc, chat_id |-> chat_id,
     data |-> [schedule_id |-> schedule_id, text |-> text, days |-> days,
               due_at |-> isoformat(due_at_utc)]]

\* the message remind_job sends for a job
Message(p, job) ==
    [schedule_id |-> job.data.schedule_id, by |-> p, chat_id |-> job.chat_id,
     text |-> job.data.text, days |-> job.data.days,
     due_local |-> fmt_local(fromisoformat(job.data.due_at))]

\* variant of StartupDue: every recovered job at now + 5s
StartupDue_Always(due, now) == now + GRACE

\* the time main() gives the job of a pending row
StartupDue(due, now) == IF due <= now THEN now + GRACE ELSE due

\* variant of DueOf: the offset taken as seconds
DueOf_Seconds(created, d) == created + d

\* due date of the schedule for offset d of an item created at `created`
DueOf(created, d) == created + timedelta_days(d)

\* the "remain" text of list_cmd and next_cmd: <<"hozir">> when overdue,
\* else days and hours left (list_cmd leaves the days out when there are none)
Remain(due, now, always_days) ==
    LET total_minutes == (due - now) \div 60
        days_left == total_minutes \div (60 * 24)
        hours_left == (total_minutes % (60 * 24)) \div 60
    IN  IF total_minutes < 0 THEN <<"hozir">>
        ELSE IF days_left > 0 \/ always_days THEN <<"kun", days_left, "soat", hours_left>>
        ELSE <<"soat", hours_left>>

\* the lines list_cmd replies with
list_cmd(chat_id, now) ==
    LET rows == db_list_items(schedules, items, chat_id, LIST_LIMIT)
    IN  [k \in 1..Len(rows) |->
            IF rows[k].next_due_at = NULL
            THEN [text |-> rows[k].text, done |-> TRUE]
            ELSE LET due == fromisoformat(rows[k].next_due_at)
                 IN  [text |-> rows[k].text, done |-> FALSE,
                      next_days |-> rows[k].next_days, due_local |-> fmt_local(due),
                      remain |-> Remain(due, now, FALSE)]]

\* the lines next_cmd replies with
next_cmd(chat_id, now) ==
    LET rows == db_next_schedules(schedules, items, chat_id, NEXT_LIMIT)
    IN  [k \in 1..Len(rows) |->
            LET due == fromisoformat(rows[k].due_at)
            IN  [days |-> rows[k].days, text |-> rows[k].text,
                 due_local |-> fmt_local(due), remain |-> Remain(due, now, FALSE)]]

-----------------------------------------------------------------------------
Init0 ==
    /\ items = <<>>
    /\ schedules = <<>>
    /\ handed = <<>>
    /\ delivered = {}
    /\ failed = {}
    /\ errored = {}
    /\ crashes = 0

InitProcs(P) ==
    /\ procs = P
    /\ up = [p \in P |-> FALSE]
    /\ job_queue = [p \in P |-> <<>>]
    /\ adding = [p \in P |-> NoAdd]
    /\ sending = [p \in P |-> EmptyBag]

\* one instance deployed, at some epoch
Init == clock \in Epochs /\ Init0 /\ InitProcs({1})

\* two instances deployed against the same store
InitMulti == clock = 0 /\ Init0 /\ InitProcs({1, 2})

Idle(p) == up[p] /\ adding[p] = NoAdd

-----------------------------------------------------------------------------
\* main(): startup re-scheduling of all unsent rows, then run_polling
Start(p) ==
    /\ ~up[p]
    /\ LET pending == db_pending_future(schedules, items)
           now == clock
       IN  job_queue' = [job_queue EXCEPT ![p] =
               [k \in 1..Len(pending) |->
                   schedule_one_job(pending[k].schedule_id, pending[k].chat_id,
                       StartupDue(fromisoformat(pending[k].due_at), now),
                       pending[k].days, pending[k].text)]]
    /\ up' = [up EXCEPT ![p] = TRUE]
    /\ UNCHANGED <<clock, items, schedules, procs, adding, sending, handed,
                   delivered, failed, errored, crashes>>

\* add without arguments: usage reply, nothing stored
AddUsage(p, args) ==
    /\ Idle(p)
    /\ args = <<>>
    /\ UNCHANGED vars

\* list: a reply computed from the store, nothing written
ListCmd(p, chat_id) ==
    /\ Idle(p)
    /\ Len(list_cmd(chat_id, clock)) <= LIST_LIMIT
    /\ UNCHANGED vars

\* variant of NextCmd: the records it shows are taken as handled (sent = 1)
NextCmd_Claims(p, chat_id) ==
    /\ Idle(p)
    /\ LET rows == db_next_schedules(schedules, items, chat_id, NEXT_LIMIT)
       IN  schedules' = [i \in 1..Len(schedules) |->
               IF \E k \in 1..Len(rows) : rows[k].schedule_id = i
               THEN [schedules[i] EXCEPT !.sent = 1] ELSE schedules[i]]
    /\ UNCHANGED <<clock, items, procs, up, job_queue, adding, sending, handed,
                   delivered, failed, errored, crashes>>

\* next: a reply computed from the store, nothing written
NextCmd(p, chat_id) ==
    /\ Idle(p)
    /\ Len(next_cmd(chat_id, clock)) <= NEXT_LIMIT
    /\ UNCHANGED vars

\* add, up to db_add_item
AddBegin(p, chat_id, args) ==
    /\ Idle(p)
    /\ args # <<>>
    /\ Len(items) < MaxItems
    /\ LET text == Join(args)
           created == clock
       IN  /\ items' = db_add_item(items, chat_id, text, created)
           /\ adding' = [adding EXCEPT ![p] =
                  [i |-> 1, item_id |-> Len(items) + 1, chat_id |-> chat_id,
                   text |-> text, created |-> created]]
    /\ UNCHANGED <<clock, schedules, procs, up, job_queue, sending, handed,
                   delivered, failed, errored, crashes>>

\* add, one iteration of the loop over REPEAT_DAYS; the last one replies
AddStep(p) ==
    /\ up[p]
    /\ adding[p] # NoAdd
    /\ LET f == adding[p]
           d == REPEAT_DAYS[f.i]
           due == DueOf(f.created, d)
           schedule_id == Len(schedules) + 1
       IN  /\ schedules' = db_add_schedule(schedules, f.item_id, f.chat_id, due, d)
           /\ handed' = Append(handed, 0)
           /\ job_queue' = [job_queue EXCEPT ![p] =
                  Append(@, schedule_one_job(schedule_id, f.chat_id, due, d, f.text))]
           /\ adding' = [adding EXCEPT ![p] =
                  IF f.i < Len(REPEAT_DAYS) THEN [f EXCEPT !.i = f.i + 1] ELSE NoAdd]
    /\ UNCHANGED <<clock, items, procs, up, sending, delivered, failed, errored, crashes>>

\* remind_job up to the await: the job leaves the queue, the row is marked
\* sent, and send_message is entered
JobFire(p, k) ==
    /\ Idle(p)
    /\ k \in 1..Len(job_queue[p])
    /\ LET job == job_queue[p][k]
       IN  /\ clock >= job.when
           /\ schedules' = db_mark_sent(schedules, job.data.schedule_id)
           /\ job_queue' = [job_queue EXCEPT ![p] = RemoveAt(@, k)]
           /\ sending' = [sending EXCEPT ![p] = @ (+) SetToBag({job})]
    /\ UNCHANGED <<clock, items, procs, up, adding, handed, delivered, failed, errored,
                   crashes>>

\* remind_job when db_mark_sent raises (sqlite3.Error): the connection is
\* closed, the exception leaves remind_job before send_message, the job is gone
JobDbError(p, k) ==
    /\ Idle(p)
    /\ k \in 1..Len(job_queue[p])
    /\ Cardinality(failed) + Cardinality(errored) < MaxFails
    /\ LET job == job_queue[p][k]
       IN  /\ clock >= job.when
           /\ job_queue' = [job_queue EXCEPT ![p] = RemoveAt(@, k)]
           /\ errored' = errored \cup {[schedule_id |-> job.data.schedule_id, by |-> p]}
    /\ UNCHANGED <<clock, items, schedules, procs, up, adding, sending, handed,
                   delivered, failed, crashes>>

\* send_message returns: the notifier accepted the message
SendOk(p, job) ==
    /\ Idle(p)
    /\ BagIn(job, sending[p])
    /\ LET sid == job.data.schedule_id
       IN  /\ delivered' = delivered \cup {Message(p, job)}
           /\ handed' = [handed EXCEPT ![sid] = @ + 1]
           /\ sending' = [sending EXCEPT ![p] = @ (-) SetToBag({job})]
    /\ UNCHANGED <<clock, items, schedules, procs, up, job_queue, adding,
                   failed, errored, crashes>>

\* variant of SendFail: the exception takes the job queue down with it
SendFail_Stops(p, job) ==
    /\ Idle(p)
    /\ Cardinality(failed) + Cardinality(errored) < MaxFails
    /\ BagIn(job, sending[p])
    /\ LET sid == job.data.schedule_id
       IN  /\ failed' = failed \cup {Message(p, job)}
           /\ handed' = [handed EXCEPT ![sid] = @ + 1]
           /\ sending' = [sending EXCEPT ![p] = EmptyBag]
           /\ job_queue' = [job_queue EXCEPT ![p] = <<>>]
    /\ UNCHANGED <<clock, items, schedules, procs, up, adding,
                   delivered, errored, crashes>>

\* send_message raises: the exception leaves remind_job, the job is gone
SendFail(p, job) ==
    /\ Idle(p)
    /\ Cardinality(failed) + Cardinality(errored) < MaxFails
    /\ BagIn(job, sending[p])
    /\ LET sid == job.data.schedule_id
       IN  /\ failed' = failed \cup {Message(p, job)}
           /\ handed' = [handed EXCEPT ![sid] = @ + 1]
           /\ sending' = [sending EXCEPT ![p] = @ (-) SetToBag({job})]
    /\ UNCHANGED <<clock, items, schedules, procs, up, job_queue, adding,
                   delivered, errored, crashes>>

\* the process dies at any point: everything in memory is lost
Crash(p) ==
    /\ up[p]
    /\ crashes < MaxCrashes
    /\ crashes' = crashes + 1
    /\ up' = [up EXCEPT ![p] = FALSE]
    /\ job_queue' = [job_queue EXCEPT ![p] = <<>>]
    /\ adding' = [adding EXCEPT ![p] = NoAdd]
    /\ sending' = [sending EXCEPT ![p] = EmptyBag]
    /\ UNCHANGED <<clock, items, schedules, procs, handed, delivered, failed, errored>>

\* instants at which something can become due
TickTargets ==
    {fromisoformat(schedules[i].due_at) : i \in 1..Len(schedules)}
    \cup UNION {{job_queue[p][k].when : k \in 1..Len(job_queue[p])} : p \in procs}

\* a running instance with nothing to do now: no handler or coroutine in
\* progress and no queued job whose time has come
Quiescent(p) ==
    /\ adding[p] = NoAdd
    /\ sending[p] = EmptyBag
    /\ \A k \in 1..Len(job_queue[p]) : job_queue[p][k].when > clock

\* time passes, up to the next instant of interest; handlers and due jobs of
\* running instances take no time on this scale
Tick ==
    /\ \A p \in procs : up[p] => Quiescent(p)
    /\ \E t \in TickTargets :
        /\ t > clock
        /\ \A u \in TickTargets : u > clock => t <= u
        /\ clock' = t
    /\ UNCHANGED <<items, schedules, procs, up, job_queue, adding, sending,
                   handed, delivered, failed, errored, crashes>>

Next ==
    \/ Tick
    \/ \E p \in procs : Start(p)
    \/ \E p \in procs : Crash(p)
    \/ \E p \in procs, a \in Args : AddUsage(p, a)
    \/ \E p \in procs, c \in Chats : ListCmd(p, c)
    \/ \E p \in procs, c \in Chats : NextCmd(p, c)
    \/ \E p \in procs, c \in Chats, a \in Args : AddBegin(p, c, a)
    \/ \E p \in procs : AddStep(p)
    \/ \E p \in procs : \E k \in 1..Len(job_queue[p]) : JobFire(p, k)
    \/ \E p \in procs : \E k \in 1..Len(job_queue[p]) : JobDbError(p, k)
    \/ \E p \in procs : \E job \in BagToSet(sending[p]) : SendOk(p, job)
    \/ \E p \in procs : \E job \in BagToSet(sending[p]) : SendFail(p, job)

Spec == Init /\ [][Next]_vars

MultiSpec == InitMulti /\ [][Next]_vars

\* the single instance with the scheduling the event loop gives: time passes,
\* a due job is run, a started handler runs on, send_message returns
FairSpec ==
    /\ Spec
    /\ WF_vars(Tick)
    /\ WF_vars(AddStep(1))
    /\ WF_vars(\E k \in 1..Len(job_queue[1]) : JobFire(1, k) \/ JobDbError(1, k))
    /\ WF_vars(\E job \in BagToSet(sending[1]) : SendOk(1, job) \/ SendFail(1, job))

-----------------------------------------------------------------------------
\* db_mark_sent on its own: the store one submission leaves behind, and mark
\* calls with any id, in any order, repeated or not

RECURSIVE AddSchedules(_, _, _, _, _)
\* the loop of add over REPEAT_DAYS[i..], on the store alone
AddSchedules(sch, item_id, chat_id, created, i) ==
    IF i > Len(REPEAT_DAYS) THEN sch
    ELSE AddSchedules(
             db_add_schedule(sch, item_id, chat_id, DueOf(created, REPEAT_DAYS[i]),
                             REPEAT_DAYS[i]),
             item_id, chat_id, created, i + 1)

InitFinalize ==
    /\ clock \in Epochs
    /\ \E c \in Chats, a \in Args \ {<<>>} :
        /\ items = db_add_item(<<>>, c, Join(a), clock)
        /\ schedules = AddSchedules(<<>>, 1, c, clock, 1)
    /\ handed = [i \in 1..Len(REPEAT_DAYS) |-> 0]
    /\ delivered = {}
    /\ failed = {}
    /\ errored = {}
    /\ crashes = 0
    /\ InitProcs({1})

\* remind_job's store update, for an id the table holds or not
Finalize(schedule_id) ==
    /\ schedules' = db_mark_sent(schedules, schedule_id)
    /\ UNCHANGED <<clock, items, procs, up, job_queue, adding, sending, handed,
                   delivered, failed, errored, crashes>>

NextFinalize == \E id \in 0..(Len(schedules) + 1) : Finalize(id)

FinalizeSpec == InitFinalize /\ [][NextFinalize]_vars

-----------------------------------------------------------------------------
\* The store on its own, as add and remind_job leave it while time passes: up
\* to MaxStoreItems submissions by either chat at any instant, and marks of
\* records whose time has come, earliest due first as their jobs run

MaxStoreItems == 3

\* add from db_add_item to the last db_add_schedule
StoreAdd(chat_id, args) ==
    /\ args # <<>>
    /\ Len(items) < MaxStoreItems
    /\ items' = db_add_item(items, chat_id, Join(args), clock)
    /\ schedules' = AddSchedules(schedules, Len(items) + 1, chat_id, clock, 1)
    /\ UNCHANGED <<clock, procs, up, job_queue, adding, sending, handed,
                   delivered, failed, errored, crashes>>

\* remind_job's store update for a record that is due
StoreMark(schedule_id) ==
    /\ schedule_id \in 1..Len(schedules)
    /\ schedules[schedule_id].sent = 0
    /\ fromisoformat(schedules[schedule_id].due_at) <= clock
    /\ \A j \in 1..Len(schedules) :
          schedules[j].sent = 0 =>
              ~IsoLess(schedules[j].due_at, schedules[schedule_id].due_at)
    /\ schedules' = db_mark_sent(schedules, schedule_id)
    /\ UNCHANGED <<clock, items, procs, up, job_queue, adding, sending, handed,
                   delivered, failed, errored, crashes>>

\* time passes up to the next due instant
StoreTick ==
    /\ \E id \in 1..Len(schedules) :
          LET t == fromisoformat(schedules[id].due_at)
          IN  /\ t > clock
              /\ \A j \in 1..Len(schedules) :
                    fromisoformat(schedules[j].due_at) > clock
                        => t <= fromisoformat(schedules[j].due_at)
              /\ clock' = t
    /\ UNCHANGED <<items, schedules, procs, up, job_queue, adding, sending,
                   handed, delivered, failed, errored, crashes>>

InitStore == clock \in Epochs /\ Init0 /\ InitProcs({})

NextStore ==
    \/ StoreTick
    \/ \E c \in Chats, a \in Args : StoreAdd(c, a)
    \/ \E id \in 1..Len(schedules) : StoreMark(id)

StoreSpec == InitStore /\ [][NextStore]_vars

-----------------------------------------------------------------------------
\* The store after a burst: chat 1 submits the same text up to MaxBulkItems
\* times at one instant, chat 2 submits once at the start of it; then time
\* passes and the due records are marked as their jobs run, earliest due
\* first and in queue order among equal times

MaxBulkItems == 21

\* add from db_add_item to the last db_add_schedule, during the burst
BulkAdd(chat_id, args) ==
    /\ Len(items) < MaxBulkItems
    /\ \A i \in 1..Len(items) : fromisoformat(items[i].created_at) = clock
    /\ \/ chat_id = 1 /\ args = <<"a">>
       \/ /\ chat_id = 2 /\ args = <<"b", "c">>
          /\ Len(items) < 2
          /\ \A i \in 1..Len(items) : items[i].chat_id # 2
    /\ items' = db_add_item(items, chat_id, Join(args), clock)
    /\ schedules' = AddSchedules(schedules, Len(items) + 1, chat_id, clock, 1)
    /\ UNCHANGED <<clock, procs, up, job_queue, adding, sending, handed,
                   delivered, failed, errored, crashes>>

\* remind_job's store update for the next job to run
BulkMark(schedule_id) ==
    /\ schedule_id \in 1..Len(schedules)
    /\ schedules[schedule_id].sent = 0
    /\ fromisoformat(schedules[schedule_id].due_at) <= clock
    /\ \A j \in 1..Len(schedules) :
          schedules[j].sent = 0 =>
              \/ IsoLess(schedules[schedule_id].due_at, schedules[j].due_at)
              \/ (schedules[schedule_id].due_at = schedules[j].due_at
                  /\ schedule_id <= j)
    /\ schedules' = db_mark_sent(schedules, schedule_id)
    /\ UNCHANGED <<clock, items, procs, up, job_queue, adding, sending, handed,
                   delivered, failed, errored, crashes>>

NextBulk ==
    \/ StoreTick
    \/ \E c \in Chats, a \in Args : BulkAdd(c, a)
    \/ \E id \in 1..Len(schedules) : BulkMark(id)

BulkSpec == InitStore /\ [][NextBulk]_vars

-----------------------------------------------------------------------------
\* Observations used by the properties below

SchedIds == 1..Len(schedules)

\* number of remind_job coroutines of p inside send_message for schedule id
InFlight(p, id) ==
    IF p \in procs
    THEN LET js == {j \in BagToSet(sending[p]) : j.data.schedule_id = id}
         IN  BagCardinality([j \in js |-> sending[p][j]])
    ELSE 0

\* send_message calls made for schedule id, completed or in progress
Calls(id) == handed[id] + InFlight(1, id) + InFlight(2, id)

\* instance p has a queued job for schedule id
Queued(p, id) ==
    \E k \in 1..Len(job_queue[p]) : job_queue[p][k].data.schedule_id = id

\* the notifier accepted a message for schedule id
Delivered(id) == \E m \in delivered : m.schedule_id = id

\* instance p took schedule id up for delivery
PickedBy(p, id) ==
    \/ InFlight(p, id) > 0
    \/ \E m \in delivered \cup failed : m.schedule_id = id /\ m.by = p

\* the stored due instant of schedule id
StoredDue(id) == fromisoformat(schedules[id].due_at)

-----------------------------------------------------------------------------
\* C1. Single instance: over any sequence of adds, job firings, crashes and
\* restarts, send_message is called at most once for each schedule record.
C1_AtMostOnce == \A id \in SchedIds : Calls(id) <= 1

\* a record delivered once by a job that startup recovery re-timed after a crash
C1_Witness ==
    /\ crashes > 0
    /\ \E m \in delivered :
        /\ handed[m.schedule_id] = 1
        /\ m.due_local # fmt_local(StoredDue(m.schedule_id))

\* C2. No delivery is lost to a crash: a record that was marked by remind_job
\* but whose notifier call never completed is eligible again (has a queued
\* job) once the process is back up.
C2_NoDeliveryLostToCrash ==
    \A id \in SchedIds :
        (/\ schedules[id].sent = 1
         /\ Calls(id) = 0
         /\ \A p \in procs : up[p])
        => \E p \in procs : Queued(p, id)

\* C3. Two instances on one store: no schedule record is taken up for
\* delivery by both of them.
C3_DisjointDeliveries ==
    \A id \in SchedIds : Cardinality({p \in procs : PickedBy(p, id)}) <= 1

\* C4. sent = 1 only if the notifier has reported a successful delivery of
\* that record.
C4_SentOnlyAfterSuccess ==
    \A id \in SchedIds : schedules[id].sent = 1 => Delivered(id)

\* C5. After a failed send_message the record is not terminal: as long as it
\* has not been delivered it stays non-Sent (and so is attempted again).
C5_FailureLeavesUnsent ==
    \A m \in failed :
        ~Delivered(m.schedule_id) => schedules[m.schedule_id].sent = 0

\* C6. A submission at instant t0 creates exactly 4 schedule records, one per
\* offset 1, 3, 7, 30 days, each with the submitter's chat id, due_at =
\* t0 + offset and sent = 0; no other schedule record is created or changed.
C6_Step ==
    \A p \in procs :
        /\ (adding[p] = NoAdd /\ adding'[p] # NoAdd) =>
               /\ schedules' = schedules
               /\ adding'[p].created = clock
               /\ adding'[p].i = 1
               /\ items'[adding'[p].item_id].chat_id = adding'[p].chat_id
               /\ \A i \in SchedIds : schedules[i].item_id # adding'[p].item_id
        /\ (adding[p] # NoAdd /\ adding'[p] # adding[p] /\ up'[p]) =>
               LET f == adding[p]
                   offset == <<1, 3, 7, 30>>[f.i]
               IN  /\ schedules' = Append(schedules,
                          [item_id |-> f.item_id, chat_id |-> f.chat_id,
                           due_at |-> isoformat(f.created + offset * 86400),
                           days |-> offset, sent |-> 0])
                   /\ (adding'[p] = NoAdd) <=> (f.i = 4)
                   /\ adding'[p] # NoAdd =>
                          adding'[p] = [f EXCEPT !.i = f.i + 1]
                   /\ Cardinality({i \in 1..Len(schedules') :
                          schedules'[i].item_id = f.item_id}) = f.i

C6_AddCreatesFour == [][C6_Step]_vars

\* a completed submission made at an instant other than the epoch origin
C6_Witness ==
    /\ Len(schedules) = 4
    /\ adding[1] = NoAdd
    /\ up[1]
    /\ items[1].created_at # isoformat(0)
    /\ \A i \in SchedIds : schedules[i].sent = 0

\* C7. No reminder is marked Sent or delivered before its stored due_at,
\* also when the job was re-created by startup recovery.
C7_Step ==
    /\ \A id \in SchedIds :
          (schedules[id].sent = 0 /\ schedules'[id].sent = 1) => clock >= StoredDue(id)
    /\ \A m \in delivered' \ delivered : clock >= StoredDue(m.schedule_id)

C7_NotBeforeDue == [][C7_Step]_vars

\* a record marked by a job that startup recovery re-timed to now + 5s
C7_Witness ==
    \E job \in BagToSet(sending[1]) :
        /\ job.when > StoredDue(job.data.schedule_id)
        /\ schedules[job.data.schedule_id].sent = 1

\* C8. Once a schedule record is Sent, no operation changes any of its fields.
C8_Step ==
    \A id \in SchedIds :
        schedules[id].sent = 1 =>
            (id \in 1..Len(schedules') /\ schedules'[id] = schedules[id])

C8_SentIsAbsorbing == [][C8_Step]_vars

\* a Sent record on which remind_job ran a second time
C8_Witness ==
    \E id \in SchedIds : schedules[id].sent = 1 /\ handed[id] = 2

\* C9. db_mark_sent on a record that is already Sent leaves the whole store
\* unchanged, and applying it twice gives the same store as applying it once
\* (for any id, also one the table does not hold).
C9_MarkSentIdempotent ==
    \A id \in 0..(Len(schedules) + 1) :
        /\ db_mark_sent(db_mark_sent(schedules, id), id) = db_mark_sent(schedules, id)
        /\ (id \in SchedIds /\ schedules[id].sent = 1) =>
               db_mark_sent(schedules, id) = schedules

\* a store with a Sent record next to an unsent one
C9_Witness ==
    /\ \E id \in SchedIds : schedules[id].sent = 1
    /\ \E id \in SchedIds : schedules[id].sent = 0

\* C10. The stored due_at of a schedule record never changes and always
\* equals the item's created_at plus the record's offset.
C10_Step ==
    /\ \A id \in SchedIds : schedules'[id].due_at = schedules[id].due_at
    /\ \A id \in 1..Len(schedules') :
          /\ schedules'[id].days \in {1, 3, 7, 30}
          /\ fromisoformat(schedules'[id].due_at) =
                fromisoformat(items'[schedules'[id].item_id].created_at)
                + schedules'[id].days * 86400

C10_DueAtFixed == [][C10_Step]_vars

\* an overdue record whose job startup recovery re-timed to now + 5s
C10_Witness ==
    \E k \in 1..Len(job_queue[1]) :
        LET job == job_queue[1][k]
        IN  /\ schedules[job.data.schedule_id].sent = 0
            /\ job.when = clock + 5
            /\ StoredDue(job.data.schedule_id) <= clock

\* C12. list_cmd (db_list_items) and next_cmd (db_next_schedules) are
\* read-only: a step of either handler leaves every item record, every
\* schedule record and every queued job as it was.
C12_Step ==
    \A p \in procs : \A chat_id \in Chats :
        (ListCmd(p, chat_id) \/ NextCmd(p, chat_id)) =>
            /\ items' = items
            /\ schedules' = schedules
            /\ job_queue' = job_queue

C12_QueriesReadOnly == [][C12_Step]_vars

\* an idle instance whose owner has a Sent record, unsent records with queued
\* jobs, so both queries have rows to read
C12_Witness ==
    /\ Idle(1)
    /\ \E chat_id \in Chats :
          /\ Len(db_list_items(schedules, items, chat_id, LIST_LIMIT)) > 0
          /\ Len(db_next_schedules(schedules, items, chat_id, NEXT_LIMIT)) > 0
    /\ \E id \in SchedIds : schedules[id].sent = 1
    /\ \E id \in SchedIds : schedules[id].sent = 0 /\ Queued(1, id)

\* C13. Every send_message call, in progress, accepted or failed, is
\* addressed to the chat that submitted the item and carries the item's text
\* and the offset (days) of the schedule record it is for; this also holds for
\* jobs created by startup recovery.
C13_RightOwnerAndPayload ==
    \A m \in delivered \cup failed
              \cup {Message(1, job) : job \in BagToSet(sending[1])} :
        LET s == schedules[m.schedule_id]
        IN  /\ m.chat_id = items[s.item_id].chat_id
            /\ m.chat_id = s.chat_id
            /\ m.text = items[s.item_id].text
            /\ m.days = s.days

\* a two-word text delivered to chat 2 by a job that startup recovery created
\* after a crash, at now + 5s
C13_Witness ==
    \E m \in delivered :
        /\ crashes > 0
        /\ m.chat_id = 2
        /\ m.text = "b c"
        /\ m.due_local # fmt_local(StoredDue(m.schedule_id))

\* remind_job was entered for schedule id: send_message called, or the store
\* update raised
Attempted(id) ==
    /\ id \in SchedIds
    /\ (Calls(id) > 0 \/ \E e \in errored : e.schedule_id = id)

\* C14. A failed attempt (db_mark_sent or send_message raising for one
\* reminder) does not stop the job queue: the step leaves the instance up with
\* every other queued job and every other send in progress in place, and every
\* other record that has a queued job after a failure is attempted later, as
\* long as the process lives.
C14_Step ==
    \A e \in ({[schedule_id |-> m.schedule_id, by |-> m.by] : m \in failed' \ failed}
                 \cup (errored' \ errored)) :
        /\ up'[e.by]
        /\ \A id \in SchedIds \ {e.schedule_id} :
              /\ Queued(e.by, id) => Queued(e.by, id)'
              /\ InFlight(e.by, id)' = InFlight(e.by, id)

C14_DispatcherContinues ==
    /\ [][C14_Step]_vars
    /\ \A id \in 1..(MaxItems * Len(REPEAT_DAYS)) :
          [](((failed # {} \/ errored # {}) /\ Queued(1, id))
                => <>(Attempted(id) \/ ~up[1]))

\* db_mark_sent raised for one record and a later record of the same process
\* run was delivered
C14_Witness ==
    /\ crashes = 0
    /\ \E e \in errored : \E m \in delivered :
          /\ m.by = e.by
          /\ m.schedule_id > e.schedule_id

\* C15. Startup recovery gives every unsent schedule record exactly one job:
\* at its stored due_at when that is still ahead, at now + 5 seconds when
\* due_at <= now; no unsent record is skipped.
C15_Step ==
    \A p \in procs :
        (~up[p] /\ up'[p]) =>
            \A id \in SchedIds :
                schedules[id].sent = 0 =>
                    /\ Cardinality({k \in 1..Len(job_queue'[p]) :
                           job_queue'[p][k].data.schedule_id = id}) = 1
                    /\ \A k \in 1..Len(job_queue'[p]) :
                          job_queue'[p][k].data.schedule_id = id =>
                              job_queue'[p][k].when =
                                  IF StoredDue(id) <= clock THEN clock + 5
                                  ELSE StoredDue(id)

C18_AllOrNothing ==
    (\A p \in procs : adding[p] = NoAdd) =>
        \A item_id \in 1..Len(items) :
            \A n \in 1..Len(REPEAT_DAYS) :
                Cardinality({id \in SchedIds :
                    /\ schedules[id].item_id = item_id
                    /\ schedules[id].days = REPEAT_DAYS[n]}) = 1

\* C19. Single running instance: whenever no add and no remind_job is in
\* progress, every schedule record with sent = 0 has a queued job in the
\* process.
C19_UnsentHasJob ==
    (/\ up[1]
     /\ adding[1] = NoAdd
     /\ sending[1] = EmptyBag)
    => \A id \in SchedIds : schedules[id].sent = 0 => Queued(1, id)

\* the unsent schedule records of a chat
Pending(chat_id) ==
    {id \in SchedIds : schedules[id].chat_id = chat_id /\ schedules[id].sent = 0}

\* the rows are records of Pending(chat_id), each once, with the record's
\* due_at and days and its item's text, in ascending due_at order
PendingRowsInOrder(rows, chat_id) ==
    /\ \A k \in 1..Len(rows) :
          /\ rows[k].schedule_id \in Pending(chat_id)
          /\ rows[k].due_at = schedules[rows[k].schedule_id].due_at
          /\ rows[k].days = schedules[rows[k].schedule_id].days
          /\ rows[k].text = items[schedules[rows[k].schedule_id].item_id].text
    /\ \A k1, k2 \in 1..Len(rows) :
          /\ rows[k1].schedule_id = rows[k2].schedule_id => k1 = k2
          /\ k1 < k2 => ~IsoLess(rows[k2].due_at, rows[k1].due_at)

\* right after the first submission of a chat the rows are its 4 new records,
\* the 1-day record first
FreshSubmissionRows(rows, chat_id) ==
    LET mine == {i \in 1..Len(items) : items[i].chat_id = chat_id}
    IN  (/\ Cardinality(mine) = 1
         /\ Cardinality(Pending(chat_id)) = Len(REPEAT_DAYS))
        => /\ [k \in 1..Len(rows) |-> rows[k].days] = REPEAT_DAYS
           /\ \A k \in 1..Len(rows) :
                 schedules[rows[k].schedule_id].item_id \in mine

\* C11 as stated. db_next_schedules returns all unsent records of the chat and
\* only those, in ascending due_at order, however many there are; right
\* after one submission these are the 4 new records, 1-day record first.
C11_AllPendingInOrder ==
    \A chat_id \in Chats :
        LET rows == db_next_schedules(schedules, items, chat_id, NEXT_LIMIT)
        IN  /\ PendingRowsInOrder(rows, chat_id)
            /\ {rows[k].schedule_id : k \in 1..Len(rows)} = Pending(chat_id)
            /\ FreshSubmissionRows(rows, chat_id)

\* C11, amended. db_next_schedules returns unsent records of the chat only, in
\* ascending due_at order, the 10 earliest of them when there are more than
\* 10 and all of them otherwise; the first row is the chat's earliest unsent
\* record, and right after a chat's first submission the rows are the 4 new
\* records, 1-day record first.
C11_EarliestPendingInOrder ==
    \A chat_id \in Chats :
        LET rows == db_next_schedules(schedules, items, chat_id, NEXT_LIMIT)
            shown == {rows[k].schedule_id : k \in 1..Len(rows)}
        IN  /\ PendingRowsInOrder(rows, chat_id)
            /\ Len(rows) = IF Cardinality(Pending(chat_id)) > 10 THEN 10
                            ELSE Cardinality(Pending(chat_id))
            /\ \A id \in Pending(chat_id) \ shown : \A k \in 1..Len(rows) :
                  ~IsoLess(schedules[id].due_at, rows[k].due_at)
            /\ FreshSubmissionRows(rows, chat_id)

\* a chat with more than 10 unsent records whose ascending due_at order is not
\* rowid order, so the rows are cut at 10 and interleave the items
C11_Witness ==
    \E chat_id \in Chats :
        LET rows == db_next_schedules(schedules, items, chat_id, NEXT_LIMIT)
        IN  /\ Cardinality(Pending(chat_id)) > 10
            /\ \E k \in 1..(Len(rows) - 1) :
                  rows[k].schedule_id > rows[k + 1].schedule_id

\* the items a chat has submitted
ItemsOf(chat_id) == {i \in 1..Len(items) : items[i].chat_id = chat_id}

\* a row of db_list_items and the line list_cmd makes of it report the item's
\* earliest unsent record (due_at, days), and report the item as completed
\* exactly when all of its schedule records are Sent
RowReportsItem(row, line) ==
    LET all == {id \in SchedIds : schedules[id].item_id = row.item_id}
        unsent == {id \in all : schedules[id].sent = 0}
    IN  /\ unsent # {} =>
              \E u \in unsent :
                  /\ \A v \in unsent :
                        ~IsoLess(schedules[v].due_at, schedules[u].due_at)
                  /\ row.next_due_at = schedules[u].due_at
                  /\ row.next_days = schedules[u].days
                  /\ line.next_days = schedules[u].days
                  /\ line.due_local = fmt_local(StoredDue(u))
        /\ (row.next_due_at = NULL) <=> (\A id \in all : schedules[id].sent = 1)
        /\ line.done <=> (\A id \in all : schedules[id].sent = 1)

\* C17 as stated. For every item of a chat the listing has a row that reports
\* the item's earliest unsent record, and reports it completed iff all of its
\* records are Sent.
C17_EveryItemReported ==
    \A chat_id \in Chats :
        LET rows == db_list_items(schedules, items, chat_id, LIST_LIMIT)
            lines == list_cmd(chat_id, clock)
        IN  \A i \in ItemsOf(chat_id) :
                \E k \in 1..Len(rows) :
                    rows[k].item_id = i /\ RowReportsItem(rows[k], lines[k])

\* C17, amended. The listing has one row for each of the chat's 20 most
\* recently submitted items (all of them if it has at most 20), newest first,
\* and no other row; each row reports the item's earliest unsent record, and
\* reports the item completed iff all of its records are Sent.
C17_RecentItemsReported ==
    \A chat_id \in Chats :
        LET rows == db_list_items(schedules, items, chat_id, LIST_LIMIT)
            lines == list_cmd(chat_id, clock)
            recent == {i \in ItemsOf(chat_id) :
                          Cardinality({j \in ItemsOf(chat_id) : j > i}) < 20}
        IN  /\ {rows[k].item_id : k \in 1..Len(rows)} = recent
            /\ Len(rows) = Cardinality(recent)
            /\ Len(lines) = Len(rows)
            /\ \A k \in 1..Len(rows) :
                  /\ RowReportsItem(rows[k], lines[k])
                  /\ rows[k].text = items[rows[k].item_id].text
                  /\ k > 1 => rows[k - 1].item_id > rows[k].item_id

\* a chat with more than 20 items whose listing has a completed item next to
\* an item whose earliest unsent record is the 30-day one
C17_Witness ==
    \E chat_id \in Chats :
        LET rows == db_list_items(schedules, items, chat_id, LIST_LIMIT)
        IN  /\ Cardinality(ItemsOf(chat_id)) > 20
            /\ \E k \in 1..Len(rows) : rows[k].next_due_at = NULL
            /\ \E k \in 1..Len(rows) : rows[k].next_days = 30

====
